---- MODULE Spec2Model ----
(***************************************************************************)
(* Model of the RAG question-answering service: the word-window chunker    *)
(* (document_processor.py), the vector-store adapter (rag_engine.py) and   *)
(* the upload / background-ingestion / query handlers with their job and   *)
(* metrics stores (app.py).                                                *)
(*                                                                         *)
(* Strings are sequences of one-character strings, so that split, join,    *)
(* strip, splitext and lower are computed as Python computes them.         *)
(***************************************************************************)
EXTENDS Integers, Sequences, FiniteSets, Bags, TLC

VARIABLES
    chunk_size,     \* DocumentProcessor.chunk_size
    overlap,        \* DocumentProcessor.overlap
    job_store,      \* app.job_store: job_id -> dict
    metrics_store,  \* app.metrics_store: list of metric records
    uploads,        \* the ./uploads directory: file_path -> file content
    reading,        \* upload requests suspended at "await file.read()":
                    \* a bag of [filename, content]
    index,          \* the vector store collection: id -> Document
    bg,             \* background tasks: job_id -> arguments, position, locals
                    \* (and, as history, the content that was uploaded)
    running,        \* the job whose background task holds the event loop, or 0
    nextJob,        \* stands for uuid4(): the next fresh job id
    lastCall,       \* the last /query or /metrics call served: what its
                    \* collaborators did and the response it got
    text,           \* chunker harness: the input text
    chunks,         \* chunker harness: the list _chunk_text returned
    cpc             \* chunker harness: "idle", "ready" or "done"

vars == <<chunk_size, overlap, job_store, metrics_store, uploads, reading, index,
          bg, running, nextJob, lastCall, text, chunks, cpc>>

sysVars == <<job_store, metrics_store, uploads, reading, index, bg, running, nextJob, lastCall>>

chunkVars == <<text, chunks, cpc>>

(***************************************************************************)
(* Bounds of the model.                                                    *)
(***************************************************************************)
MaxTextLen == 5

MaxChunkSize == 4

MaxJobs == 2

MaxMetrics == 2

(***************************************************************************)
(* Program constants.                                                      *)
(***************************************************************************)
DEFAULT_CHUNK_SIZE == 500

DEFAULT_OVERLAP == 50

MAX_UPLOAD_BYTES == 10485760

RETRIEVE_K == 5

EXCERPT_CHARS == 300

(***************************************************************************)
(* Python string primitives.                                               *)
(***************************************************************************)
Whitespace == {" ", "\n"}

Alphabet == {"a", "b", " ", "\n"}

Min(a, b) == IF a < b THEN a ELSE b

Max(a, b) == IF a > b THEN a ELSE b

Range(s) == {s[p] : p \in DOMAIN s}

\* The element of a singleton set. Value({F(x) : x \in {e}}) is F(e) with e
\* evaluated once and named x.
Value(S) == CHOOSE v \in S : TRUE

\* s[i:j] for 0 <= i, 0 <= j
slice(s, i, j) == SubSeq(s, i + 1, Min(j, Len(s)))

\* str.split(): the maximal runs of non-whitespace characters, in order
split(s) ==
    LET starts == {p \in DOMAIN s : s[p] \notin Whitespace /\ (p = 1 \/ s[p - 1] \in Whitespace)}
        EndOf(p) == CHOOSE q \in p..Len(s) :
                        /\ \A r \in p..q : s[r] \notin Whitespace
                        /\ (q = Len(s) \/ s[q + 1] \in Whitespace)
        Nth(k) == CHOOSE p \in starts : Cardinality({x \in starts : x <= p}) = k
    IN  [k \in 1..Cardinality(starts) |-> SubSeq(s, Nth(k), EndOf(Nth(k)))]

\* sep.join(ws)
join(sep, ws) ==
    LET joined[k \in 0..Len(ws)] ==
            IF k = 0 THEN <<>>
            ELSE IF k = 1 THEN ws[1]
            ELSE joined[k - 1] \o sep \o ws[k]
    IN  joined[Len(ws)]

\* str.strip(): without its leading and trailing whitespace
strip(s) ==
    LET kept == {p \in DOMAIN s : s[p] \notin Whitespace}
    IN  IF kept = {} THEN <<>>
        ELSE SubSeq(s, CHOOSE p \in kept : \A q \in kept : p <= q,
                       CHOOSE p \in kept : \A q \in kept : q <= p)

(***************************************************************************)
(* DocumentProcessor._chunk_text                                           *)
(***************************************************************************)
\* for i in range(0, len(words), stride): the chunks appended from start
\* index i on; one window of up to size words per start index, kept when it
\* is not blank. stride > 0 in every configuration Init constructs.
ChunkLoop(words, size, stride) ==
    LET from[i \in Nat] ==
            IF i >= Len(words)
            THEN <<>>
            ELSE Value({(IF strip(chunk) # <<>> THEN <<chunk>> ELSE <<>>) :
                            chunk \in {join(<<" ">>, slice(words, i, i + size))}})
                    \o from[i + stride]
    IN  from[0]

chunk_text(t, size, ov) ==
    Value({ChunkLoop(words, size, size - ov) : words \in {split(t)}})

(***************************************************************************)
(* More string primitives: str(int), str.lower, os.path.splitext.          *)
(***************************************************************************)
DIGITS == <<"0", "1", "2", "3", "4", "5", "6", "7", "8", "9">>

RECURSIVE Dec(_)
Dec(n) == IF n < 10 THEN <<DIGITS[n + 1]>> ELSE Dec(n \div 10) \o <<DIGITS[(n % 10) + 1]>>

UPPERCASE == <<"A", "B", "C", "D", "E", "F", "G", "H", "I", "J", "K", "L", "M",
               "N", "O", "P", "Q", "R", "S", "T", "U", "V", "W", "X", "Y", "Z">>

LOWERCASE == <<"a", "b", "c", "d", "e", "f", "g", "h", "i", "j", "k", "l", "m",
               "n", "o", "p", "q", "r", "s", "t", "u", "v", "w", "x", "y", "z">>

LowerChar(c) ==
    IF \E p \in DOMAIN UPPERCASE : UPPERCASE[p] = c
    THEN LOWERCASE[CHOOSE p \in DOMAIN UPPERCASE : UPPERCASE[p] = c]
    ELSE c

lower(s) == [p \in DOMAIN s |-> LowerChar(s[p])]

\* os.path.splitext: <<root, ext>>, ext from the last dot that follows a non-dot
splitext(s) ==
    LET dots == {p \in DOMAIN s : s[p] = "."}
        d    == CHOOSE p \in dots : \A q \in dots : q <= p
    IN  IF dots = {} \/ (\A q \in 1..(d - 1) : s[q] = ".")
        THEN <<s, <<>>>>
        ELSE <<SubSeq(s, 1, d - 1), SubSeq(s, d, Len(s))>>

(***************************************************************************)
(* Inputs: uploaded filenames and file contents.                           *)
(***************************************************************************)
EXT_TXT == <<".", "t", "x", "t">>

EXT_PDF == <<".", "p", "d", "f">>

ALLOWED_EXTENSIONS == {EXT_TXT, EXT_PDF}

Filenames == { <<"a", ".", "t", "x", "t">>,
               <<"b", ".", "P", "D", "F">>,
               <<"c", ".", "d", "o", "c", "x">> }

\* A file content: the characters a text extractor yields from it, whether
\* it can be read at all (valid UTF-8 / a well-formed PDF), and its length.
TextFile(t) == [data |-> t, readable |-> TRUE, nbytes |-> Len(t)]

CorruptFile == [data |-> <<>>, readable |-> FALSE, nbytes |-> 1]

HugeFile == [data |-> <<>>, readable |-> TRUE, nbytes |-> MAX_UPLOAD_BYTES + 1]

\* The files uploaded: an empty file (no chunks), a text of three words
\* (three chunks under the small window, one under the default), a file that
\* cannot be decoded and a file over the size limit.
FileContents == { TextFile(<<>>),
                  TextFile(<<"a", " ", "b", " ", "a">>),
                  CorruptFile,
                  HugeFile }

JobIds == 1..MaxJobs

NoExc == [type |-> "none", status_code |-> 0, msg |-> <<>>]

Exc(type, msg) == [type |-> type, status_code |-> 0, msg |-> msg]

HTTPException(code, detail) == [type |-> "HTTPException", status_code |-> code, msg |-> detail]

\* str(e): starlette's HTTPException prints "<status_code>: <detail>"
StrExc(e) ==
    IF e.type = "HTTPException" THEN Dec(e.status_code) \o <<": ">> \o e.msg ELSE e.msg

\* dict[key] = value
SetKey(d, k, v) == (k :> v) @@ d

(***************************************************************************)
(* DocumentProcessor                                                       *)
(***************************************************************************)
\* str() of the FileNotFoundError that open() raises for a missing path
NoSuchFile(file_path) == <<"[Errno 2] No such file or directory: '">> \o file_path \o <<"'">>

\* str() of the UnicodeDecodeError that read() raises for the corrupt file,
\* whose first byte is 0xff
UTF8_INVALID_START == <<"'utf-8' codec can't decode byte 0xff in position 0: invalid start byte">>

\* open(file_path, "r", encoding="utf-8").read()
load_txt(fs, file_path) ==
    IF file_path \notin DOMAIN fs
    THEN [raised |-> TRUE, exc |-> Exc("FileNotFoundError", NoSuchFile(file_path)), value |-> <<>>]
    ELSE IF ~fs[file_path].readable
    THEN [raised |-> TRUE, exc |-> Exc("UnicodeDecodeError", UTF8_INVALID_START), value |-> <<>>]
    ELSE [raised |-> FALSE, exc |-> NoExc, value |-> fs[file_path].data]

\* PdfReader: the text of each page followed by a newline; a readable PDF
\* file is modelled as a single page whose extracted text is its data.
load_pdf(fs, file_path) ==
    IF file_path \notin DOMAIN fs
    THEN [raised |-> TRUE, exc |-> Exc("FileNotFoundError", NoSuchFile(file_path)), value |-> <<>>]
    ELSE IF ~fs[file_path].readable
    THEN [raised |-> TRUE, exc |-> Exc("PdfReadError", <<"EOF marker not found">>), value |-> <<>>]
    ELSE [raised |-> FALSE, exc |-> NoExc, value |-> fs[file_path].data \o <<"\n">>]

doc_id(filename, i) == filename \o <<"_">> \o Dec(i)

Document(chunk, i, filename, total) ==
    [page_content |-> chunk,
     metadata     |-> [chunk_id |-> i, source |-> filename, total_chunks |-> total],
     id           |-> doc_id(filename, i)]

\* lines 42-56: one Document and one id per chunk, numbered from 1
MakeDocuments(cs, filename) ==
    [raised    |-> FALSE,
     exc       |-> NoExc,
     documents |-> [i \in 1..Len(cs) |-> Document(cs[i], i, filename, Len(cs))],
     ids       |-> [i \in 1..Len(cs) |-> doc_id(filename, i)]]

\* lines 26-33: the text of the file, by its extension
LoadContent(fs, file_path, filename) ==
    LET file_ext == lower(splitext(filename)[2])
    IN  IF file_ext = EXT_TXT THEN load_txt(fs, file_path)
        ELSE IF file_ext = EXT_PDF THEN load_pdf(fs, file_path)
        ELSE [raised |-> TRUE,
              exc |-> Exc("ValueError", <<"Unsupported file type: ">> \o file_ext),
              value |-> <<>>]

process_file(fs, file_path, filename, size, ov) ==
    Value({ IF content.raised
            THEN [raised |-> TRUE, exc |-> content.exc, documents |-> <<>>, ids |-> <<>>]
            ELSE Value({MakeDocuments(cs, filename) :
                            cs \in {chunk_text(content.value, size, ov)}}) :
            content \in {LoadContent(fs, file_path, filename)} })

(***************************************************************************)
(* RAGEngine                                                               *)
(***************************************************************************)
\* A store that ignores the ids it is given and keys every document by a
\* fresh key, as a vector store does when no ids are passed.
add_documents_fresh_ids(store, documents, ids) ==
    LET n == Cardinality(DOMAIN store)
        fresh == {<<"#">> \o Dec(n + p) : p \in DOMAIN documents}
    IN  [k \in DOMAIN store \cup fresh |->
            IF k \in fresh
            THEN documents[CHOOSE p \in DOMAIN documents : k = <<"#">> \o Dec(n + p)]
            ELSE store[k]]

\* vector_store.add_documents(documents=documents, ids=ids): the store
\* upserts by id, the last document given for an id wins.
add_documents(store, documents, ids) ==
    [k \in DOMAIN store \cup Range(ids) |->
        IF k \in Range(ids)
        THEN documents[CHOOSE p \in DOMAIN ids :
                          ids[p] = k /\ \A q \in DOMAIN ids : ids[q] = k => q <= p]
        ELSE store[k]]

\* The results similarity_search_with_score may return: min(k, size of the
\* store) documents, which ones being the store's choice.
RetrieveResults(store, k) ==
    {S \in SUBSET (DOMAIN store) : Cardinality(S) = Min(k, Cardinality(DOMAIN store))}

(***************************************************************************)
(* app.py: job records and the steps of process_document_background.       *)
(***************************************************************************)
UPLOAD_DIR == <<".", "/", "u", "p", "l", "o", "a", "d", "s">>

\* os.path.join(upload_dir, f"{job_id}_{file.filename}")
FilePath(job_id, filename) == UPLOAD_DIR \o <<"/">> \o Dec(job_id) \o <<"_">> \o filename

Now == "isoformat"

NewJob(job_id, filename) ==
    [job_id     |-> job_id,
     filename   |-> filename,
     status     |-> "queued",
     created_at |-> Now,
     progress   |-> <<"Queued for processing">>]

\* A worker that reports progress but never records that it started.
MarkProcessingNoStatus(job) == SetKey(job, "progress", <<"Loading document...">>)

MarkProcessing(job) ==
    SetKey(SetKey(job, "status", "processing"), "progress", <<"Loading document...">>)

ReportChunks(job, n) ==
    SetKey(job, "progress", <<"Created ">> \o Dec(n) \o <<" chunks, generating embeddings...">>)

MarkCompleted(job, n) ==
    SetKey(SetKey(SetKey(job, "status", "completed"),
                  "progress", <<"Successfully processed ">> \o Dec(n) \o <<" chunks">>),
           "completed_at", Now)

\* An exception handler that marks the job failed without recording why.
MarkFailedNoError(job, e) == SetKey(job, "status", "failed")

\* An exception handler that swallows the exception.
MarkFailedSwallow(job, e) == job

MarkFailed(job, e) == SetKey(SetKey(job, "status", "failed"), "error", StrExc(e))

\* A cleanup that leaves the uploaded file in place.
CleanupKeepsFile(fs, file_path) == fs

\* if os.path.exists(file_path): os.remove(file_path)
Cleanup(fs, file_path) ==
    IF file_path \in DOMAIN fs
    THEN [q \in DOMAIN fs \ {file_path} |-> fs[q]]
    ELSE fs

Terminal == {"completed", "failed"}

(***************************************************************************)
(* POST /upload                                                            *)
(***************************************************************************)
\* lines 86-106: the extension check, then the handler is suspended at
\* "await file.read()" and the event loop serves whatever else is ready.
UploadBegin(filename, content) ==
    /\ running = 0
    /\ LET file_ext == lower(splitext(filename)[2])
       IN  IF file_ext \notin ALLOWED_EXTENSIONS
           THEN \* HTTPException(400, "File type ... not supported")
                UNCHANGED reading
           ELSE /\ (nextJob - 1) + BagCardinality(reading) < MaxJobs
                /\ reading' = reading (+) SetToBag({[filename |-> filename, content |-> content]})
    /\ UNCHANGED <<chunk_size, overlap, job_store, metrics_store, uploads, index, bg,
                   running, nextJob, lastCall, chunkVars>>

\* lines 106-140: file.read() has returned; the size check, the write to
\* ./uploads, the job entry and add_task follow without another await.
UploadResume(req) ==
    /\ running = 0
    /\ BagIn(req, reading)
    /\ reading' = reading (-) SetToBag({req})
    /\ IF req.content.nbytes > MAX_UPLOAD_BYTES
       THEN \* HTTPException(400, "File too large. Max size: 10MB")
            UNCHANGED <<job_store, uploads, bg, nextJob>>
       ELSE /\ nextJob <= MaxJobs
            /\ LET job_id    == nextJob
                   file_path == FilePath(job_id, req.filename)
               IN  /\ uploads' = (file_path :> req.content) @@ uploads
                   /\ job_store' = (job_id :> NewJob(job_id, req.filename)) @@ job_store
                   /\ bg' = (job_id :> [pc        |-> "queued",
                                        file_path |-> file_path,
                                        filename  |-> req.filename,
                                        content   |-> req.content,
                                        documents |-> <<>>,
                                        ids       |-> <<>>]) @@ bg
                   /\ nextJob' = nextJob + 1
    /\ UNCHANGED <<chunk_size, overlap, metrics_store, index, running, lastCall, chunkVars>>

(***************************************************************************)
(* process_document_background: the task runs on the event loop without    *)
(* awaiting, so from its first statement to its finally block no other     *)
(* handler runs (running = job_id).                                        *)
(***************************************************************************)
\* lines 61-62
BgStart(j) ==
    /\ running = 0
    /\ j \in DOMAIN bg
    /\ bg[j].pc = "queued"
    /\ job_store' = [job_store EXCEPT ![j] = MarkProcessing(@)]
    /\ bg' = [bg EXCEPT ![j].pc = "loading"]
    /\ running' = j
    /\ UNCHANGED <<reading, chunk_size, overlap, metrics_store, uploads, index, nextJob,
                   lastCall, chunkVars>>

\* lines 65-67, or 76-78 when process_file raises
BgProcessFile(j) ==
    /\ running = j
    /\ bg[j].pc = "loading"
    /\ \E r \in {process_file(uploads, bg[j].file_path, bg[j].filename, chunk_size, overlap)} :
           IF r.raised
           THEN /\ job_store' = [job_store EXCEPT ![j] = MarkFailed(@, r.exc)]
                /\ bg' = [bg EXCEPT ![j].pc = "finally"]
           ELSE /\ job_store' = [job_store EXCEPT ![j] = ReportChunks(@, Len(r.documents))]
                /\ bg' = [bg EXCEPT ![j].pc = "indexing",
                                    ![j].documents = r.documents,
                                    ![j].ids = r.ids]
    /\ UNCHANGED <<reading, chunk_size, overlap, metrics_store, uploads, index, running,
                   nextJob, lastCall, chunkVars>>

\* lines 70-74: the store takes every document and the job completes
BgAddDocuments(j) ==
    /\ running = j
    /\ bg[j].pc = "indexing"
    /\ index' = add_documents(index, bg[j].documents, bg[j].ids)
    /\ job_store' = [job_store EXCEPT ![j] = MarkCompleted(@, Len(bg[j].documents))]
    /\ bg' = [bg EXCEPT ![j].pc = "finally"]
    /\ UNCHANGED <<reading, chunk_size, overlap, metrics_store, uploads, running, nextJob,
                   lastCall, chunkVars>>

\* lines 70, 76-78: the store (or the embedding model behind it) raises after
\* taking the first k documents; nothing is rolled back
BgAddDocumentsFails(j) ==
    /\ running = j
    /\ bg[j].pc = "indexing"
    /\ \E k \in 0..Max(0, Len(bg[j].documents) - 1) :
          index' = add_documents(index, SubSeq(bg[j].documents, 1, k), SubSeq(bg[j].ids, 1, k))
    /\ job_store' = [job_store EXCEPT
                        ![j] = MarkFailed(@, Exc("Exception", <<"vector store unavailable">>))]
    /\ bg' = [bg EXCEPT ![j].pc = "finally"]
    /\ UNCHANGED <<reading, chunk_size, overlap, metrics_store, uploads, running, nextJob,
                   lastCall, chunkVars>>

\* lines 79-82
BgFinally(j) ==
    /\ running = j
    /\ bg[j].pc = "finally"
    /\ uploads' = Cleanup(uploads, bg[j].file_path)
    /\ bg' = [bg EXCEPT ![j].pc = "done"]
    /\ running' = 0
    /\ UNCHANGED <<reading, chunk_size, overlap, job_store, metrics_store, index, nextJob,
                   lastCall, chunkVars>>

BgStep(j) ==
    \/ BgStart(j)
    \/ BgProcessFile(j)
    \/ BgAddDocuments(j)
    \/ BgAddDocumentsFails(j)
    \/ BgFinally(j)

(***************************************************************************)
(* POST /query                                                             *)
(***************************************************************************)
NO_DOCS == <<"No relevant documents found. Please upload documents first.">>

Question == <<"w", "h", "y", "?">>

\* The names query_documents can resolve: builtins and the globals of app.py.
AppGlobals == {"len", "round", "enumerate", "getattr", "time", "datetime",
               "rag_engine", "metrics_store", "HTTPException", "QueryResponse"}

\* Every exception of the model is an instance of Exception.
ExceptionClasses == {"Exception", "HTTPException", "NameError", "ValueError",
                     "FileNotFoundError", "UnicodeDecodeError", "PdfReadError"}

\* doc.page_content[:300] + "..." if len(doc.page_content) > 300 else doc.page_content
Excerpt(content) ==
    IF Len(content) > EXCERPT_CHARS
    THEN SubSeq(content, 1, EXCERPT_CHARS) \o <<"...">>
    ELSE content

Raised(e) == [raised |-> TRUE, exc |-> e, metrics_store |-> <<>>, source_chunks |-> {}]

\* lines 166-216, the body of the try block. retr is what rag_engine.retrieve
\* did (raised, or returned the documents with ids retr.docs), genOk whether
\* rag_engine.generate_answer returns text.
QueryTry(question, store, retr, genOk, mstore) ==
    IF retr.raised THEN Raised(Exc("Exception", <<"embedding model unavailable">>))
    ELSE IF retr.docs = {} THEN Raised(HTTPException(404, NO_DOCS))
    ELSE IF ~genOk THEN Raised(Exc("Exception", <<"language model unavailable">>))
    ELSE IF "lchunken" \notin AppGlobals
    THEN Raised(Exc("NameError", <<"name 'lchunken' is not defined">>))
    ELSE [raised |-> FALSE,
          exc |-> NoExc,
          metrics_store |->
              Append(mstore,
                     [question |-> question,
                      metrics  |-> [total_latency_ms      |-> 0,
                                    retrieval_latency_ms  |-> 0,
                                    generation_latency_ms |-> 0,
                                    s_retrieved           |-> Cardinality(retr.docs),
                                    timestamp             |-> Now]]),
          source_chunks |->
              {[content |-> Excerpt(store[d].page_content),
                source  |-> store[d].metadata.source] : d \in retr.docs}]

\* lines 163-219: except Exception turns whatever the body raised into a 500
query_documents(question, store, retr, genOk, mstore) ==
    LET t == QueryTry(question, store, retr, genOk, mstore)
    IN  IF t.raised /\ t.exc.type \in ExceptionClasses
        THEN [status_code |-> 500,
              detail |-> <<"Query processing failed: ">> \o StrExc(t.exc),
              metrics_store |-> mstore]
        ELSE [status_code |-> 200,
              detail |-> <<"answer">>,
              metrics_store |-> t.metrics_store]

Query ==
    /\ running = 0
    /\ Len(metrics_store) < MaxMetrics
    /\ \E retrRaises \in BOOLEAN, genOk \in BOOLEAN :
       \E docs \in RetrieveResults(index, RETRIEVE_K) :
          LET retr == [raised |-> retrRaises, docs |-> docs]
              r    == query_documents(Question, index, retr, genOk, metrics_store)
          IN  /\ metrics_store' = r.metrics_store
              /\ lastCall' = [op |-> "query",
                              status_code |-> r.status_code,
                              detail      |-> r.detail,
                              retrieval   |-> IF retrRaises THEN "raised"
                                              ELSE IF docs = {} THEN "empty"
                                              ELSE "found",
                              generated   |-> ~retrRaises /\ docs # {} /\ genOk]
    /\ UNCHANGED <<reading, chunk_size, overlap, job_store, uploads, index, bg, running,
                   nextJob, chunkVars>>

(***************************************************************************)
(* GET /metrics                                                            *)
(***************************************************************************)
RECURSIVE SumLatency(_)
SumLatency(ms) ==
    IF ms = <<>> THEN 0 ELSE Head(ms).metrics.total_latency_ms + SumLatency(Tail(ms))

GetMetrics ==
    /\ running = 0
    /\ lastCall' =
          IF metrics_store = <<>>
          THEN [op |-> "metrics", status_code |-> 200,
                detail |-> <<"No metrics available yet">>, total_queries |-> 0]
          ELSE [op |-> "metrics", status_code |-> 200,
                detail |-> Dec(SumLatency(metrics_store) \div Len(metrics_store)),
                total_queries |-> Len(metrics_store)]
    /\ UNCHANGED <<reading, chunk_size, overlap, job_store, metrics_store, uploads, index, bg,
                   running, nextJob, chunkVars>>

(***************************************************************************)
(* The service.                                                            *)
(***************************************************************************)
\* app.py constructs DocumentProcessor() with its defaults; a small window
\* is added so that the modelled files span several chunks.
SystemConfigs == {<<DEFAULT_CHUNK_SIZE, DEFAULT_OVERLAP>>, <<2, 1>>}

UploadRequests == [filename : Filenames, content : FileContents]

SysInit ==
    /\ job_store = <<>>
    /\ metrics_store = <<>>
    /\ uploads = <<>>
    /\ reading = EmptyBag
    /\ index = <<>>
    /\ bg = <<>>
    /\ running = 0
    /\ nextJob = 1
    /\ lastCall = [op |-> "none", status_code |-> 0, detail |-> <<>>]

Init ==
    /\ \E cfg \in SystemConfigs : chunk_size = cfg[1] /\ overlap = cfg[2]
    /\ SysInit
    /\ text = <<>>
    /\ chunks = <<>>
    /\ cpc = "idle"

Next ==
    \/ \E filename \in Filenames, content \in FileContents : UploadBegin(filename, content)
    \/ \E req \in UploadRequests : UploadResume(req)
    \/ \E j \in JobIds : BgStart(j)
    \/ \E j \in JobIds : BgProcessFile(j)
    \/ \E j \in JobIds : BgAddDocuments(j)
    \/ \E j \in JobIds : BgAddDocumentsFails(j)
    \/ \E j \in JobIds : BgFinally(j)
    \/ Query
    \/ GetMetrics

Spec == Init /\ [][Next]_vars

\* Ingestion alone, fairly scheduled: every background task that was added
\* is run, and every call it makes returns or raises. /query and /metrics
\* read and write nothing a job depends on, and are left out.
NextIngest ==
    \/ \E filename \in Filenames, content \in FileContents : UploadBegin(filename, content)
    \/ \E req \in UploadRequests : UploadResume(req)
    \/ \E j \in JobIds : BgStart(j)
    \/ \E j \in JobIds : BgProcessFile(j)
    \/ \E j \in JobIds : BgAddDocuments(j)
    \/ \E j \in JobIds : BgAddDocumentsFails(j)
    \/ \E j \in JobIds : BgFinally(j)

\* app.py line 25 constructs DocumentProcessor() with its defaults.
InitLive == Init /\ chunk_size = DEFAULT_CHUNK_SIZE /\ overlap = DEFAULT_OVERLAP

LiveSpec == InitLive /\ [][NextIngest]_vars /\ \A j \in JobIds : WF_vars(BgStep(j))

(***************************************************************************)
(* The chunker on its own: every text over Alphabet up to MaxTextLen       *)
(* characters, every window configuration up to MaxChunkSize and the       *)
(* default one.                                                            *)
(***************************************************************************)
Texts == UNION {[1..n -> Alphabet] : n \in 0..MaxTextLen}

ChunkConfigs ==
    {cfg \in (1..MaxChunkSize) \X (0..MaxChunkSize) : cfg[2] < cfg[1]}
        \cup {<<DEFAULT_CHUNK_SIZE, DEFAULT_OVERLAP>>}

InitChunk ==
    /\ \E cfg \in ChunkConfigs : chunk_size = cfg[1] /\ overlap = cfg[2]
    /\ SysInit
    /\ text \in Texts
    /\ chunks = <<>>
    /\ cpc = "ready"

RunChunker ==
    /\ cpc = "ready"
    /\ chunks' = chunk_text(text, chunk_size, overlap)
    /\ cpc' = "done"
    /\ UNCHANGED <<chunk_size, overlap, text, sysVars>>

NextChunk == RunChunker

SpecChunk == InitChunk /\ [][NextChunk]_vars

(***************************************************************************)
(* Properties.                                                             *)
(***************************************************************************)
CeilDiv(a, b) == (a + b - 1) \div b

WordCount == Len(split(text))

Words(chunk) == split(chunk)

FirstN(ws, n) == SubSeq(ws, 1, Min(n, Len(ws)))

LastN(ws, n) == SubSeq(ws, Len(ws) - Min(n, Len(ws)) + 1, Len(ws))

ForwardSteps == {<<"queued", "processing">>,
                 <<"processing", "completed">>,
                 <<"processing", "failed">>}

\* C1: a job record is created with status queued, is never removed, and its
\* status changes only queued -> processing, processing -> completed or
\* processing -> failed; a completed or failed job never changes status again.
StatusForwardOnly ==
    [][/\ DOMAIN job_store \subseteq DOMAIN job_store'
       /\ \A j \in DOMAIN job_store' :
             IF j \notin DOMAIN job_store
             THEN job_store'[j].status = "queued"
             ELSE \/ job_store'[j].status = job_store[j].status
                  \/ <<job_store[j].status, job_store'[j].status>> \in ForwardSteps]_vars

StatusForwardOnlyWitness ==
    \E j \in DOMAIN job_store : \E k \in DOMAIN job_store :
        /\ job_store[j].status = "completed"
        /\ job_store[k].status = "failed"

\* The jobs that were created and have not finished with a terminal status.
PendingJobs ==
    {j \in DOMAIN job_store : ~(bg[j].pc = "done" /\ job_store[j].status \in Terminal)}

\* C2: under fair scheduling of the background tasks, every job that was
\* created eventually has finished its workflow with status completed or
\* failed: from any point on, a state follows in which no created job is
\* still queued or processing.
EventuallyTerminal == []<>(PendingJobs = {})

EventuallyTerminalWitness ==
    \E j \in DOMAIN job_store :
        /\ bg[j].pc = "done"
        /\ job_store[j].status = "failed"
        /\ bg[j].content.readable

\* C3: once the background workflow of a job has finished, whatever its
\* outcome, the temporary file written for the job no longer exists.
FileRemovedWhenFinished ==
    \A j \in DOMAIN bg : bg[j].pc = "done" => bg[j].file_path \notin DOMAIN uploads

FileRemovedWhenFinishedWitness ==
    \E j \in DOMAIN bg : \E k \in DOMAIN bg :
        /\ bg[j].pc = "done" /\ job_store[j].status = "completed"
        /\ bg[k].pc = "done" /\ job_store[k].status = "failed"
        /\ DOMAIN uploads = {}

\* C4 (as claimed): a /query call whose retrieval search returns nothing ends
\* with status 404 and the 'No relevant documents found' detail, and appends
\* no metric record.
EmptyRetrievalIs404 ==
    (lastCall.op = "query" /\ lastCall.retrieval = "empty") =>
        /\ lastCall.status_code = 404
        /\ lastCall.detail = NO_DOCS
        /\ metrics_store = <<>>

\* C5 (as claimed): a /query call whose retrieval search returns at least one
\* unit and whose generation returns text succeeds and leaves a metric record
\* in the metrics sequence.
GoodQueryRecordsMetric ==
    (lastCall.op = "query" /\ lastCall.retrieval = "found" /\ lastCall.generated) =>
        /\ lastCall.status_code = 200
        /\ Len(metrics_store) >= 1

\* C6 (as claimed): the chunker returns ceil(max(0, wordCount - overlap) / stride)
\* chunks, which is 0 for a text without words.
ChunkCountClaimed ==
    cpc = "done" =>
        Len(chunks) = CeilDiv(Max(0, WordCount - overlap), chunk_size - overlap)

\* C7 (as claimed): a text with at least one word and fewer than chunk_size
\* words gives exactly one chunk, which holds all the words in order.
ShortTextOneChunk ==
    (cpc = "done" /\ WordCount >= 1 /\ WordCount < chunk_size) =>
        /\ Len(chunks) = 1
        /\ Words(chunks[1]) = split(text)

\* C8 (as claimed): every chunk has at most chunk_size words, and two
\* consecutive chunks of which the second is not the last share exactly
\* overlap words: the last overlap words of the first are the first overlap
\* words of the second.
ChunksOverlapExactly ==
    cpc = "done" =>
        /\ \A k \in DOMAIN chunks : Len(Words(chunks[k])) <= chunk_size
        /\ \A k \in 1..(Len(chunks) - 2) :
              /\ Len(Words(chunks[k])) >= overlap
              /\ Len(Words(chunks[k + 1])) >= overlap
              /\ LastN(Words(chunks[k]), overlap) = FirstN(Words(chunks[k + 1]), overlap)

SameUpload(j, k) ==
    /\ bg[j].filename = bg[k].filename
    /\ bg[j].content = bg[k].content

\* C9: when an ingestion completes and an earlier completed ingestion had the
\* same filename and the same content, it produced the same ids and the set
\* of ids in the index (hence the index size) does not change.
ReingestKeepsIndexIds ==
    [][\A j \in DOMAIN bg : \A k \in DOMAIN bg \ {j} :
          ( /\ bg[j].pc = "indexing"
            /\ bg'[j].pc = "finally"
            /\ job_store'[j].status = "completed"
            /\ job_store[k].status = "completed"
            /\ SameUpload(j, k) )
          => /\ Range(bg[j].ids) = Range(bg[k].ids)
             /\ DOMAIN index' = DOMAIN index]_vars

ReingestKeepsIndexIdsWitness ==
    \E j \in DOMAIN bg : \E k \in DOMAIN bg \ {j} :
        /\ SameUpload(j, k)
        /\ job_store[j].status = "completed"
        /\ job_store[k].status = "completed"
        /\ Len(bg[j].ids) >= 2
        /\ DOMAIN index = Range(bg[j].ids)

\* C10: a job record has an error exactly when its status is failed, and a
\* completed_at exactly when its status is completed.
JobFieldsMatchStatus ==
    \A j \in DOMAIN job_store :
        /\ ("error" \in DOMAIN job_store[j]) <=> (job_store[j].status = "failed")
        /\ ("completed_at" \in DOMAIN job_store[j]) <=> (job_store[j].status = "completed")

JobFieldsMatchStatusWitness ==
    \E j \in DOMAIN job_store : \E k \in DOMAIN job_store :
        /\ job_store[j].status = "failed" /\ "error" \in DOMAIN job_store[j]
        /\ job_store[k].status = "completed" /\ "completed_at" \in DOMAIN job_store[k]
        /\ bg[j].pc = "finally"

====
